---- MODULE Spec2Model ----
(***************************************************************************)
(* Model of examples/batch_request.py: a linear pipeline that generates    *)
(* OEWS series identifiers from the code catalog, posts them in batches    *)
(* to the BLS API, reconciles the returned series with their metadata,     *)
(* shapes a DataFrame and writes it to a CSV file.                         *)
(*                                                                         *)
(* Text is modelled by TLA+ strings where the script only concatenates or  *)
(* compares it (codes, identifiers, periods, years) and by sequences of    *)
(* one-character strings where the script parses it (observation values).  *)
(***************************************************************************)
EXTENDS Integers, Sequences, FiniteSets, TLC

VARIABLES
    state_codes,       \* list(codes['area_codes']['S']['state_codes'].keys())
    occupation_codes,  \* list(codes['occupation_codes'][...].keys())
    series_ids,        \* generated identifiers
    series_metadata,   \* generated metadata records
    k,                 \* number of product combinations consumed by the generator loop
    i,                 \* batch loop variable (offset into series_ids)
    all_results,       \* accumulator of raw result records
    submitted,         \* call log of requests.post: the batches sent, in order
    responses,         \* call log of requests.post: what each call came back with
    delays,            \* number of time.sleep calls made
    r,                 \* number of entries of all_results consumed by the reconcile loop
    processed_data,    \* flat records
    df,                \* the DataFrame
    df_wide,           \* the pivoted DataFrame
    output_file,       \* contents of oews_batch_results.csv
    error,             \* the uncaught exception that ended the run, if any
    pc                 \* position in the script

vars == <<state_codes, occupation_codes, series_ids, series_metadata, k, i,
          all_results, submitted, responses, delays, r, processed_data, df,
          df_wide, output_file, error, pc>>

-----------------------------------------------------------------------------
(* Bounds of the model *)

\* most raw result records one response carries
MaxSeries == 2
\* most raw result records the retrieval collaborator returns over a whole run
MaxResults == 2

-----------------------------------------------------------------------------
(* Program constants *)

industry_code == "000000"
datatype_codes == <<"04", "13">>
BATCH_SIZE == 50
PREFIX == "OEUS"
ANNUAL == "A01"
SENTINEL == <<"-">>

-----------------------------------------------------------------------------
(* Small helpers *)

Min(a, b) == IF a <= b THEN a ELSE b

Range(s) == {s[n] : n \in 1..Len(s)}

RECURSIVE Flatten(_)
Flatten(ss) == IF ss = <<>> THEN <<>> ELSE Head(ss) \o Flatten(Tail(ss))

\* all sequences over S of length at most n
SeqUpTo(S, n) == UNION {[1..m -> S] : m \in 0..n}

-----------------------------------------------------------------------------
(* The reference catalog (reference/series_id_codes.json).  Its keys are   *)
(* dictionary keys, hence unique within each list.                         *)

DigitStr == <<"0", "1", "2", "3", "4", "5", "6", "7", "8", "9">>

\* a fixed-width six character occupation code: "110000", "120000", ...
OccCode(j) == DigitStr[((10 + j) \div 10) + 1] \o DigitStr[((10 + j) % 10) + 1] \o "0000"

OccPrefix(n) == [j \in 1..n |-> OccCode(j)]

\* sizes of the fixed-width occupation lists: with two data types they give
\* 0, 2, 50 and 60 identifiers per state
OccSizes == {0, 1, 25, 30}

StateCodeLists ==
    { <<>>, <<"0600000">>, <<"0600000", "4800000">> }

OccupationCodeLists == {OccPrefix(n) : n \in OccSizes}

\* the catalogs of the model: the fixed-width lists in every combination (0,
\* 2, 4, 50, 60, 100 and 120 identifiers), and one whose codes vary in width
Catalogs ==
    (StateCodeLists \X OccupationCodeLists)
        \cup { << <<"1", "10">>, <<"01", "1">> >> }

NaN == "NaN"

state_names == [c \in Range(state_codes) |-> "state " \o c]
occupation_names == [c \in Range(occupation_codes) |-> "occupation " \o c]
datatype_names == [c \in {"04", "13"} |->
                     IF c = "04" THEN "Annual mean wage" ELSE "Annual median wage"]

-----------------------------------------------------------------------------
(* Series identifier generation, lines 36-51 *)

\* itertools.product(A, B, C): the rightmost list advances fastest
InnerProduct(a, b, C) == [n \in 1..Len(C) |-> <<a, b, C[n]>>]

RECURSIVE MiddleProduct(_, _, _)
MiddleProduct(a, B, C) ==
    IF B = <<>> THEN <<>>
    ELSE InnerProduct(a, Head(B), C) \o MiddleProduct(a, Tail(B), C)

\* product with the leftmost list advancing fastest
ProductLeftFastest(A, B, C) ==
    [n \in 1..(Len(A) * Len(B) * Len(C)) |->
        <<A[((n - 1) % Len(A)) + 1],
          B[(((n - 1) \div Len(A)) % Len(B)) + 1],
          C[((n - 1) \div (Len(A) * Len(B))) + 1]>>]

RECURSIVE product(_, _, _)
product(A, B, C) ==
    IF A = <<>> THEN <<>>
    ELSE MiddleProduct(Head(A), B, C) \o product(Tail(A), B, C)

\* an identifier that leaves the occupation code out
SeriesIdWithoutOccupation(state_code, occ_code, datatype) ==
    PREFIX \o state_code \o industry_code \o datatype

\* f"OEUS{state_code}{industry_code}{occ_code}{datatype}"
SeriesId(state_code, occ_code, datatype) ==
    PREFIX \o state_code \o industry_code \o occ_code \o datatype

Metadata(state_code, occ_code, datatype) ==
    [series_id       |-> SeriesId(state_code, occ_code, datatype),
     state_code      |-> state_code,
     occupation_code |-> occ_code,
     datatype_code   |-> datatype]

NoFrame == [columns |-> <<>>, rows |-> <<>>]
NoFile == [written |-> FALSE, columns |-> <<>>, rows |-> <<>>]

Init ==
    /\ \E catalog \in Catalogs :
          /\ state_codes = catalog[1]
          /\ occupation_codes = catalog[2]
    /\ series_ids = <<>>
    /\ series_metadata = <<>>
    /\ k = 0
    /\ i = 0
    /\ all_results = <<>>
    /\ submitted = <<>>
    /\ responses = <<>>
    /\ delays = 0
    /\ r = 0
    /\ processed_data = <<>>
    /\ df = NoFrame
    /\ df_wide = {}
    /\ output_file = NoFile
    /\ error = "none"
    /\ pc = "generate"

\* one iteration of the for loop at line 39
GenerateStep ==
    /\ pc = "generate"
    /\ LET combos == product(state_codes, occupation_codes, datatype_codes) IN
       /\ k < Len(combos)
       /\ LET t == combos[k + 1] IN
          /\ series_ids' = Append(series_ids, SeriesId(t[1], t[2], t[3]))
          /\ series_metadata' = Append(series_metadata, Metadata(t[1], t[2], t[3]))
       /\ k' = k + 1
    /\ UNCHANGED <<state_codes, occupation_codes, i, all_results, submitted,
                   responses, delays, r, processed_data, df, df_wide,
                   output_file, error, pc>>

\* the product is exhausted; lines 54-58 set up the batch loop
GenerateDone ==
    /\ pc = "generate"
    /\ k = Len(product(state_codes, occupation_codes, datatype_codes))
    /\ all_results' = <<>>
    /\ i' = 0
    /\ pc' = "fetch"
    /\ UNCHANGED <<state_codes, occupation_codes, series_ids, series_metadata, k,
                   submitted, responses, delays, r, processed_data, df, df_wide,
                   output_file, error>>

-----------------------------------------------------------------------------
(* The retrieval collaborator (the BLS API behind requests.post).  A call   *)
(* ends in one of three ways: a REQUEST_SUCCEEDED envelope with a list of  *)
(* series, an envelope with another status, or a RequestException          *)
(* (timeout, connection error, HTTP error status, undecodable body).       *)
(* Envelopes are well formed: they have the keys the script reads.         *)

Obs(period, year, value) == [period |-> period, year |-> year, value |-> value]

\* observation lists a returned series may carry
ObsLists ==
    { << Obs("A01", "2023", <<"5", "2">>) >>,
      << Obs("A01", "2023", <<"-">>) >>,
      << Obs("M13", "2023", <<"x">>) >>,
      << Obs("A01", "2023", <<"4", ".", "5">>), Obs("A01", "2022", <<"-">>) >>,
      << Obs("A01", "2023", <<"x">>) >> }

\* an identifier the generator never produces
UnknownId == "LNS14000000"

\* the series a response may carry: the first identifier of the batch with
\* any of the observation lists, or a series nobody asked for
RawRecords(batch) ==
    [seriesID : {batch[1]}, data : ObsLists]
        \cup { [seriesID |-> UnknownId,
                data     |-> << Obs("A01", "2023", <<"x">>) >>] }

\* data['Results']['series'] of a REQUEST_SUCCEEDED envelope
SucceededSeries(batch) == SeqUpTo(RawRecords(batch), MaxSeries)

\* what a rejected envelope may carry under 'Results'
RejectedSeries(batch) ==
    { << [seriesID |-> batch[1], data |-> << Obs("A01", "2023", <<"5", "2">>) >>] >> }

Response(status, series) == [status |-> status, series |-> series]

-----------------------------------------------------------------------------
(* Batched requests, lines 54-88 *)

\* a slice one identifier short
BatchOneShort(ids, at) == SubSeq(ids, at + 1, Min(at + BATCH_SIZE - 1, Len(ids)))

\* series_ids[i:i + BATCH_SIZE]
Batch(ids, at) == SubSeq(ids, at + 1, Min(at + BATCH_SIZE, Len(ids)))

\* an accumulator that takes the new series at its front
ExtendAtFront(results, series) == series \o results

\* all_results.extend(data['Results']['series'])
Extend(results, series) == results \o series

\* lines 70-77: the post returns a REQUEST_SUCCEEDED envelope
PostSucceeded ==
    /\ pc = "fetch"
    /\ i < Len(series_ids)
    /\ LET batch == Batch(series_ids, i) IN
       \E series \in SucceededSeries(batch) :
          /\ Len(all_results) + Len(series) <= MaxResults
          /\ submitted' = Append(submitted, batch)
          /\ responses' = Append(responses, Response("REQUEST_SUCCEEDED", series))
          /\ all_results' = Extend(all_results, series)
    /\ pc' = "ratelimit"
    /\ UNCHANGED <<state_codes, occupation_codes, series_ids, series_metadata, k, i,
                   delays, r, processed_data, df, df_wide, output_file, error>>

\* lines 78-79: the envelope's status is not REQUEST_SUCCEEDED
PostRejected ==
    /\ pc = "fetch"
    /\ i < Len(series_ids)
    /\ LET batch == Batch(series_ids, i) IN
       \E series \in RejectedSeries(batch) :
          /\ submitted' = Append(submitted, batch)
          /\ responses' = Append(responses, Response("REQUEST_NOT_PROCESSED", series))
    /\ pc' = "ratelimit"
    /\ UNCHANGED <<state_codes, occupation_codes, series_ids, series_metadata, k, i,
                   all_results, delays, r, processed_data, df, df_wide,
                   output_file, error>>

\* lines 81-82: requests.post or raise_for_status raised a RequestException
PostFailed ==
    /\ pc = "fetch"
    /\ i < Len(series_ids)
    /\ submitted' = Append(submitted, Batch(series_ids, i))
    /\ responses' = Append(responses, Response("RequestException", <<>>))
    /\ pc' = "ratelimit"
    /\ UNCHANGED <<state_codes, occupation_codes, series_ids, series_metadata, k, i,
                   all_results, delays, r, processed_data, df, df_wide,
                   output_file, error>>

\* lines 85-86 with another batch to come: time.sleep(0.25), then the next i
RateLimitSleep ==
    /\ pc = "ratelimit"
    /\ i + BATCH_SIZE < Len(series_ids)
    /\ delays' = delays + 1
    /\ i' = i + BATCH_SIZE
    /\ pc' = "fetch"
    /\ UNCHANGED <<state_codes, occupation_codes, series_ids, series_metadata, k,
                   all_results, submitted, responses, r, processed_data, df,
                   df_wide, output_file, error>>

\* a loop that sleeps after every batch, the last one included
RateLimitAlwaysSleeps ==
    /\ pc = "ratelimit"
    /\ ~(i + BATCH_SIZE < Len(series_ids))
    /\ delays' = delays + 1
    /\ i' = i + BATCH_SIZE
    /\ pc' = "fetch"
    /\ UNCHANGED <<state_codes, occupation_codes, series_ids, series_metadata, k,
                   all_results, submitted, responses, r, processed_data,
                   df, df_wide, output_file, error>>

\* line 85 after the last batch: no sleep
RateLimitSkip ==
    /\ pc = "ratelimit"
    /\ ~(i + BATCH_SIZE < Len(series_ids))
    /\ i' = i + BATCH_SIZE
    /\ pc' = "fetch"
    /\ UNCHANGED <<state_codes, occupation_codes, series_ids, series_metadata, k,
                   all_results, submitted, responses, delays, r, processed_data,
                   df, df_wide, output_file, error>>

\* the range at line 59 is exhausted; lines 88-92
FetchDone ==
    /\ pc = "fetch"
    /\ i >= Len(series_ids)
    /\ processed_data' = <<>>
    /\ r' = 0
    /\ pc' = "reconcile"
    /\ UNCHANGED <<state_codes, occupation_codes, series_ids, series_metadata, k, i,
                   all_results, submitted, responses, delays, df, df_wide,
                   output_file, error>>

-----------------------------------------------------------------------------
(* float(): the value tokens of the model are written with digits, '.',    *)
(* '-' and a letter, and over that alphabet float() accepts                *)
(* [sign] digits ['.' [digits]]  and  [sign] '.' digits  and nothing else. *)
(* A float is kept as num / 10^scale with no trailing zero in the fraction.*)

Digits == Range(DigitStr)

DigitVal(c) == CHOOSE d \in 0..9 : DigitStr[d + 1] = c

IsDigits(s) == \A n \in 1..Len(s) : s[n] \in Digits

RECURSIVE DigitsVal(_)
DigitsVal(s) ==
    IF s = <<>> THEN 0
    ELSE DigitsVal(SubSeq(s, 1, Len(s) - 1)) * 10 + DigitVal(s[Len(s)])

Unsigned(s) == IF s /= <<>> /\ s[1] \in {"-", "+"} THEN Tail(s) ELSE s

DotAt(s) == {n \in 1..Len(s) : s[n] = "."}

\* float(s) does not raise ValueError
CanFloat(s) ==
    LET u == Unsigned(s)
        dots == DotAt(u)
    IN  IF dots = {}
        THEN u /= <<>> /\ IsDigits(u)
        ELSE /\ Cardinality(dots) = 1
             /\ LET p == CHOOSE n \in dots : TRUE IN
                /\ IsDigits(SubSeq(u, 1, p - 1))
                /\ IsDigits(SubSeq(u, p + 1, Len(u)))
                /\ Len(u) >= 2

RECURSIVE Normalize(_, _)
Normalize(num, scale) ==
    IF scale > 0 /\ num % 10 = 0 THEN Normalize(num \div 10, scale - 1)
    ELSE [absent |-> FALSE, num |-> num, scale |-> scale]

\* float(s), for a token float() accepts
Float(s) ==
    LET u == Unsigned(s)
        dots == DotAt(u)
        p == IF dots = {} THEN Len(u) + 1 ELSE CHOOSE n \in dots : TRUE
        whole == SubSeq(u, 1, p - 1)
        frac == SubSeq(u, p + 1, Len(u))
        mag == Normalize(DigitsVal(whole \o frac), Len(frac))
    IN  IF s /= <<>> /\ s[1] = "-"
        THEN [absent |-> FALSE, num |-> 0 - mag.num, scale |-> mag.scale]
        ELSE mag

\* None in the 'value' field
None == [absent |-> TRUE, num |-> 0, scale |-> 0]

-----------------------------------------------------------------------------
(* Reconciliation, lines 92-112 *)

\* next((m for m in series_metadata if m['series_id'] == series_id), None):
\* the position of the first matching record, 0 for None
FindMetadata(metadata, series_id) ==
    LET hits == {n \in 1..Len(metadata) : metadata[n].series_id = series_id} IN
    IF hits = {} THEN 0 ELSE CHOOSE n \in hits : \A m \in hits : n <= m

\* line 104
IsAnnual(data_point) == data_point.period = ANNUAL

\* line 111: the conversion raises ValueError
Raises(data_point) ==
    IsAnnual(data_point) /\ data_point.value /= SENTINEL /\ ~CanFloat(data_point.value)

\* a conversion without the test for the sentinel
ParseValueUnguarded(value) ==
    IF value = SENTINEL THEN [absent |-> FALSE, num |-> 0, scale |-> 0] ELSE Float(value)

\* line 111
ParseValue(value) == IF value /= SENTINEL THEN Float(value) ELSE None

\* lines 105-112
FlatRecord(series_id, metadata, data_point) ==
    [series_id       |-> series_id,
     state_code      |-> metadata.state_code,
     occupation_code |-> metadata.occupation_code,
     datatype_code   |-> metadata.datatype_code,
     year            |-> data_point.year,
     value           |-> ParseValue(data_point.value)]

\* lines 103-112: what the inner loop appends for the data points it gets through
RECURSIVE FlatRecords(_, _, _)
FlatRecords(series_id, metadata, data) ==
    IF data = <<>> THEN <<>>
    ELSE IF IsAnnual(Head(data))
         THEN <<FlatRecord(series_id, metadata, Head(data))>>
                  \o FlatRecords(series_id, metadata, Tail(data))
         ELSE FlatRecords(series_id, metadata, Tail(data))

\* the data points before the first one whose conversion raises
RECURSIVE BeforeRaise(_)
BeforeRaise(data) ==
    IF data = <<>> \/ Raises(Head(data)) THEN <<>>
    ELSE <<Head(data)>> \o BeforeRaise(Tail(data))

\* lines 98-100: no metadata for the series, continue
ReconcileSkip ==
    /\ pc = "reconcile"
    /\ r < Len(all_results)
    /\ FindMetadata(series_metadata, all_results[r + 1].seriesID) = 0
    /\ r' = r + 1
    /\ UNCHANGED <<state_codes, occupation_codes, series_ids, series_metadata, k, i,
                   all_results, submitted, responses, delays, processed_data, df,
                   df_wide, output_file, error, pc>>

\* lines 94-112: one series whose annual values all convert
ReconcileSeries ==
    /\ pc = "reconcile"
    /\ r < Len(all_results)
    /\ LET series == all_results[r + 1]
           at == FindMetadata(series_metadata, series.seriesID)
       IN  /\ at /= 0
           /\ \A n \in 1..Len(series.data) : ~Raises(series.data[n])
           /\ processed_data' = processed_data \o
                  FlatRecords(series.seriesID, series_metadata[at], series.data)
    /\ r' = r + 1
    /\ UNCHANGED <<state_codes, occupation_codes, series_ids, series_metadata, k, i,
                   all_results, submitted, responses, delays, df, df_wide,
                   output_file, error, pc>>

\* a loop that swallows the ValueError and goes on to the next series
ReconcileRaiseSwallowed ==
    /\ pc = "reconcile"
    /\ r < Len(all_results)
    /\ LET series == all_results[r + 1]
           at == FindMetadata(series_metadata, series.seriesID)
       IN  /\ at /= 0
           /\ \E n \in 1..Len(series.data) : Raises(series.data[n])
           /\ processed_data' = processed_data \o
                  FlatRecords(series.seriesID, series_metadata[at],
                              BeforeRaise(series.data))
    /\ r' = r + 1
    /\ UNCHANGED <<state_codes, occupation_codes, series_ids, series_metadata, k, i,
                   all_results, submitted, responses, delays, df, df_wide,
                   output_file, error, pc>>

\* lines 103-111: float() raises ValueError, which nothing catches
ReconcileRaise ==
    /\ pc = "reconcile"
    /\ r < Len(all_results)
    /\ LET series == all_results[r + 1]
           at == FindMetadata(series_metadata, series.seriesID)
       IN  /\ at /= 0
           /\ \E n \in 1..Len(series.data) : Raises(series.data[n])
           /\ processed_data' = processed_data \o
                  FlatRecords(series.seriesID, series_metadata[at],
                              BeforeRaise(series.data))
    /\ error' = "ValueError"
    /\ pc' = "aborted"
    /\ UNCHANGED <<state_codes, occupation_codes, series_ids, series_metadata, k, i,
                   all_results, submitted, responses, delays, r, df, df_wide,
                   output_file>>

\* the loop at line 94 is exhausted
ReconcileDone ==
    /\ pc = "reconcile"
    /\ r = Len(all_results)
    /\ pc' = "shape"
    /\ UNCHANGED <<state_codes, occupation_codes, series_ids, series_metadata, k, i,
                   all_results, submitted, responses, delays, r, processed_data,
                   df, df_wide, output_file, error>>

-----------------------------------------------------------------------------
(* The DataFrame, lines 115-132 *)

\* the keys of a flat record, in insertion order
FrameColumns ==
    <<"series_id", "state_code", "occupation_code", "datatype_code", "year", "value">>

\* the columns lines 122-124 add
LabelColumns == <<"state_name", "occupation_name", "datatype_name">>

\* pd.DataFrame(processed_data): an empty list gives a frame without columns
DataFrame(data) ==
    [columns |-> IF data = <<>> THEN <<>> ELSE FrameColumns, rows |-> data]

\* Series.map(dict): a code the dict lacks maps to NaN
MapName(code, names) == IF code \in DOMAIN names THEN names[code] ELSE NaN

\* lines 122-124 on one row
Labelled(row) ==
    [series_id       |-> row.series_id,
     state_code      |-> row.state_code,
     occupation_code |-> row.occupation_code,
     datatype_code   |-> row.datatype_code,
     year            |-> row.year,
     value           |-> row.value,
     state_name      |-> MapName(row.state_code, state_names),
     occupation_name |-> MapName(row.occupation_code, occupation_names),
     datatype_name   |-> MapName(row.datatype_code, datatype_names)]

WithLabels(frame) ==
    [columns |-> frame.columns \o LabelColumns,
     rows    |-> [n \in 1..Len(frame.rows) |-> Labelled(frame.rows[n])]]

\* aggfunc='first': the first value of the group that is not null
FirstValue(rows, state_name, occupation_name, datatype_name) ==
    LET hits == {n \in 1..Len(rows) :
                    /\ rows[n].state_name = state_name
                    /\ rows[n].occupation_name = occupation_name
                    /\ rows[n].datatype_name = datatype_name
                    /\ ~rows[n].value.absent}
    IN  IF hits = {} THEN None
        ELSE rows[CHOOSE n \in hits : \A m \in hits : n <= m].value

\* df.pivot_table(index=[state_name, occupation_name], columns=datatype_name,
\* values='value', aggfunc='first'), as the set of its rows: groups with a
\* null key or without a value are dropped
PivotTable(frame) ==
    LET rows == frame.rows
        kept == {n \in 1..Len(rows) :
                    /\ rows[n].state_name /= NaN
                    /\ rows[n].occupation_name /= NaN
                    /\ rows[n].datatype_name /= NaN
                    /\ ~rows[n].value.absent}
        names == {rows[n].datatype_name : n \in kept}
    IN  { [state_name      |-> rows[n].state_name,
           occupation_name |-> rows[n].occupation_name,
           cells           |-> [d \in names |->
                                  FirstValue(rows, rows[n].state_name,
                                             rows[n].occupation_name, d)]]
          : n \in kept }

\* lines 115-132 with at least one flat record
Shape ==
    /\ pc = "shape"
    /\ processed_data /= <<>>
    /\ df' = WithLabels(DataFrame(processed_data))
    /\ df_wide' = PivotTable(df')
    /\ pc' = "write"
    /\ UNCHANGED <<state_codes, occupation_codes, series_ids, series_metadata, k, i,
                   all_results, submitted, responses, delays, r, processed_data,
                   output_file, error>>

\* lines 115-122 without flat records: the frame has no 'state_code' column
\* and df['state_code'] raises KeyError, which nothing catches
ShapeRaise ==
    /\ pc = "shape"
    /\ processed_data = <<>>
    /\ df' = DataFrame(processed_data)
    /\ error' = "KeyError"
    /\ pc' = "aborted"
    /\ UNCHANGED <<state_codes, occupation_codes, series_ids, series_metadata, k, i,
                   all_results, submitted, responses, delays, r, processed_data,
                   df_wide, output_file>>

-----------------------------------------------------------------------------
(* The CSV file, lines 137-139 *)

RECURSIVE Pow10(_)
Pow10(n) == IF n = 0 THEN 1 ELSE 10 * Pow10(n - 1)

RECURSIVE IntStr(_)
IntStr(n) == IF n < 10 THEN DigitStr[n + 1] ELSE IntStr(n \div 10) \o DigitStr[(n % 10) + 1]

\* the last width digits of n, zero padded
RECURSIVE PadDigits(_, _)
PadDigits(n, width) ==
    IF width = 0 THEN "" ELSE PadDigits(n \div 10, width - 1) \o DigitStr[(n % 10) + 1]

\* repr of a float: 52.0, 4.5, -3.0
FloatRepr(v) ==
    LET mag == IF v.num < 0 THEN 0 - v.num ELSE v.num
        sign == IF v.num < 0 THEN "-" ELSE ""
    IN  sign \o IntStr(mag \div Pow10(v.scale)) \o "."
             \o (IF v.scale = 0 THEN "0" ELSE PadDigits(mag % Pow10(v.scale), v.scale))

\* one cell of the file: nulls are written as empty fields
CsvCell(row, column) ==
    IF column = "value"
    THEN IF row.value.absent THEN "" ELSE FloatRepr(row.value)
    ELSE IF row[column] = NaN THEN "" ELSE row[column]

\* a file holding the wide view: one line per (state, occupation) pair
ToCsvWide(frame) ==
    LET firsts == {n \in 1..Len(frame.rows) :
                      \A m \in 1..(n - 1) :
                          \/ frame.rows[m].state_name /= frame.rows[n].state_name
                          \/ frame.rows[m].occupation_name /= frame.rows[n].occupation_name}
        nth(j) == CHOOSE n \in firsts : Cardinality({m \in firsts : m < n}) = j - 1
    IN  [written |-> TRUE,
         columns |-> <<"state_name", "occupation_name">>,
         rows    |-> [j \in 1..Cardinality(firsts) |->
                        <<frame.rows[nth(j)].state_name, frame.rows[nth(j)].occupation_name>>]]

\* frame.to_csv(output_file, index=False): the header and one line per row
ToCsv(frame) ==
    [written |-> TRUE,
     columns |-> frame.columns,
     rows    |-> [n \in 1..Len(frame.rows) |->
                    [c \in 1..Len(frame.columns) |->
                        CsvCell(frame.rows[n], frame.columns[c])]]]

\* line 139
WriteCsv ==
    /\ pc = "write"
    /\ output_file' = ToCsv(df)
    /\ pc' = "done"
    /\ UNCHANGED <<state_codes, occupation_codes, series_ids, series_metadata, k, i,
                   all_results, submitted, responses, delays, r, processed_data,
                   df, df_wide, error>>

Next ==
    \/ GenerateStep
    \/ GenerateDone
    \/ PostSucceeded
    \/ PostRejected
    \/ PostFailed
    \/ RateLimitSleep
    \/ RateLimitSkip
    \/ FetchDone
    \/ ReconcileSkip
    \/ ReconcileSeries
    \/ ReconcileRaise
    \/ ReconcileDone
    \/ Shape
    \/ ShapeRaise
    \/ WriteCsv

Spec == Init /\ [][Next]_vars

-----------------------------------------------------------------------------
(* Properties *)

AfterGenerate == pc /= "generate"

\* the batch loop has ended
AfterFetch == pc \in {"reconcile", "shape", "write", "done", "aborted"}

CeilDiv(n, d) == (n + d - 1) \div d

\* no element occurs twice
Distinct(s) == Cardinality(Range(s)) = Len(s)

SameLength(s) == \A p, q \in 1..Len(s) : Len(s[p]) = Len(s[q])

Statuses == [j \in 1..Len(responses) |-> responses[j].status]

\* C1: n identifiers are submitted in ceil(n / 50) batches, one post each
\* whatever its outcome; no batch holds more than 50 identifiers, every batch
\* but the last holds exactly 50, and the batches concatenated in submission
\* order are the identifier sequence.
C1_BatchesPartitionIdentifiers ==
    LET n == Len(series_ids)
        sent == Flatten(submitted)
    IN  /\ Len(responses) = Len(submitted)
        /\ \A j \in 1..Len(submitted) :
              /\ Len(submitted[j]) >= 1
              /\ Len(submitted[j]) <= 50
              /\ j < CeilDiv(n, 50) => Len(submitted[j]) = 50
        /\ Len(sent) <= n
        /\ sent = SubSeq(series_ids, 1, Len(sent))
        /\ AfterFetch => /\ Len(submitted) = CeilDiv(n, 50)
                         /\ sent = series_ids

\* scenario B: 120 identifiers went out as 50, 50 and 20, with mixed outcomes
C1_Witness ==
    /\ pc = "reconcile"
    /\ Len(series_ids) = 120
    /\ [j \in 1..Len(submitted) |-> Len(submitted[j])] = <<50, 50, 20>>
    /\ Statuses = <<"RequestException", "REQUEST_SUCCEEDED", "REQUEST_NOT_PROCESSED">>

\* C2: one delay separates each pair of consecutive submissions and none
\* follows the last one, whatever the outcomes: k >= 1 batches see k - 1
\* delays, and a run over zero identifiers sees none.
C2_DelaysBetweenBatches ==
    /\ pc = "generate" => delays = 0 /\ submitted = <<>>
    /\ pc = "ratelimit" => delays = Len(submitted) - 1
    /\ pc = "fetch" /\ i < Len(series_ids) => delays = Len(submitted)
    /\ (pc = "fetch" /\ i >= Len(series_ids)) \/ AfterFetch =>
          delays = IF Len(submitted) = 0 THEN 0 ELSE Len(submitted) - 1

\* three batches of every outcome, two delays
C2_Witness ==
    /\ pc = "reconcile"
    /\ Statuses = <<"REQUEST_NOT_PROCESSED", "RequestException", "REQUEST_SUCCEEDED">>
    /\ delays = 2

\* C5: g, o and d codes give g*o*d identifiers and as many metadata records;
\* the record at position p carries the identifier at position p and the
\* triple that made it, the identifier is 'OEUS' + geography + industry +
\* occupation + measure type, and the order is that of the product with the
\* geography outermost, then the occupation, then the measure type.
C5_GeneratorProduct ==
    LET g == Len(state_codes)
        o == Len(occupation_codes)
        d == Len(datatype_codes)
        n == Len(series_ids)
    IN  /\ Len(series_metadata) = n
        /\ n <= g * o * d
        /\ AfterGenerate => n = g * o * d
        /\ \A p \in 1..n :
              LET geo == state_codes[((p - 1) \div (o * d)) + 1]
                  occ == occupation_codes[(((p - 1) \div d) % o) + 1]
                  typ == datatype_codes[((p - 1) % d) + 1]
              IN  /\ series_ids[p] = "OEUS" \o geo \o "000000" \o occ \o typ
                  /\ series_metadata[p] =
                        [series_id |-> series_ids[p], state_code |-> geo,
                         occupation_code |-> occ, datatype_code |-> typ]

\* two states, thirty occupations and two measure types gave 120 identifiers
C5_Witness ==
    /\ AfterGenerate
    /\ Len(state_codes) = 2 /\ Len(occupation_codes) = 30
    /\ Len(series_ids) = 120
    /\ series_ids[63] = "OEUS480000000000012000004"

UniqueCodes ==
    Distinct(state_codes) /\ Distinct(occupation_codes) /\ Distinct(datatype_codes)

\* the identifiers are pairwise distinct and each is the identifier of
\* exactly one metadata record
UniqueIdentifiers ==
    LET keys == [q \in 1..Len(series_metadata) |-> series_metadata[q].series_id] IN
    /\ Distinct(series_ids)
    /\ Distinct(keys)
    /\ Range(series_ids) \subseteq Range(keys)

\* C6 as stated: unique codes in each set give pairwise distinct identifiers,
\* each with a unique metadata record.
C6_UniqueCodesGiveUniqueIds == UniqueCodes => UniqueIdentifiers

\* C6 as amended: unique codes of one width within each set give pairwise
\* distinct identifiers, each with a unique metadata record.
C6_FixedWidthCodesGiveUniqueIds ==
    /\ UniqueCodes
    /\ SameLength(state_codes)
    /\ SameLength(occupation_codes)
    /\ SameLength(datatype_codes)
    => UniqueIdentifiers

\* fixed-width codes of two states and twenty-five occupations, all generated
C6_Witness ==
    /\ AfterGenerate
    /\ SameLength(state_codes) /\ SameLength(occupation_codes)
    /\ Len(state_codes) = 2
    /\ Len(series_ids) = 100

Matched(series) == FindMetadata(series_metadata, series.seriesID) /= 0

AnnualPoints(data) == SelectSeq(data, IsAnnual)

IsPrefix(s, t) == Len(s) <= Len(t) /\ s = SubSeq(t, 1, Len(s))

\* C3 as stated: whatever the batches came back with, the run does not fail
\* after the batch loop other than by the conversion error at reconciliation;
\* stated for runs that submitted at least one batch.
C3_RunProceedsWithWhateverAccumulated ==
    Len(submitted) >= 1 /\ pc = "aborted" => error = "ValueError"

\* the series lists of the responses that succeeded, in submission order
SucceededSoFar ==
    Flatten([j \in 1..Len(responses) |->
                IF responses[j].status = "REQUEST_SUCCEEDED"
                THEN responses[j].series ELSE <<>>])

\* C4: the accumulator is the concatenation, in submission order, of the
\* series lists of the batches that succeeded; a rejected or failed batch
\* leaves it unchanged and the next batch is still submitted; it never
\* shrinks and is never reordered.
C4_AccumulatorState ==
    /\ all_results = SucceededSoFar
    /\ AfterFetch => Len(responses) = CeilDiv(Len(series_ids), 50)

C4_AccumulatorStep ==
    /\ IsPrefix(all_results, all_results')
    /\ Len(responses') = Len(responses) + 1
       /\ responses'[Len(responses')].status /= "REQUEST_SUCCEEDED"
       => all_results' = all_results /\ pc' = "ratelimit"

C4_AccumulatorIsSuccessesInOrder ==
    [] C4_AccumulatorState /\ [][C4_AccumulatorStep]_vars

\* a success, a failure and a success left two different series, in order
C4_Witness ==
    /\ pc = "reconcile"
    /\ Statuses = <<"REQUEST_SUCCEEDED", "RequestException", "REQUEST_SUCCEEDED">>
    /\ Len(responses[1].series) = 1
    /\ Len(responses[3].series) = 1
    /\ Len(all_results) = 2
    /\ all_results[1] = responses[1].series[1]
    /\ all_results[2] = responses[3].series[1]
    /\ all_results[1] /= all_results[2]

\* C7 as stated: a series with metadata contributes one flat record when it
\* has an annual observation and none otherwise, so the flat records number
\* as many as the reconciled series that have metadata and an annual
\* observation.
C7_AtMostOneFlatRecordPerSeries ==
    pc \in {"reconcile", "shape", "write", "done"} =>
        Len(processed_data) =
            Cardinality({j \in 1..r : /\ Matched(all_results[j])
                                      /\ AnnualPoints(all_results[j].data) /= <<>>})

\* the decimal numbers the value tokens of the model denote
C8_Decimal(value) ==
    IF value = <<"5", "2">> THEN [absent |-> FALSE, num |-> 52, scale |-> 0]
    ELSE IF value = <<"4", ".", "5">> THEN [absent |-> FALSE, num |-> 45, scale |-> 1]
    ELSE [absent |-> FALSE, num |-> 0 - 1, scale |-> 0]

C8_Step ==
    pc = "reconcile" /\ r < Len(all_results) /\ Matched(all_results[r + 1]) =>
        LET annual == AnnualPoints(all_results[r + 1].data)
            added == SubSeq(processed_data', Len(processed_data) + 1,
                            Len(processed_data'))
        IN  /\ (\A p \in 1..Len(annual) :
                   annual[p].value \in {<<"-">>, <<"5", "2">>, <<"4", ".", "5">>})
               => pc' /= "aborted" /\ Len(added) = Len(annual)
            /\ Len(added) <= Len(annual)
            /\ \A p \in 1..Len(added) :
                  /\ added[p].year = annual[p].year
                  /\ annual[p].value = <<"-">> => added[p].value.absent
                  /\ annual[p].value /= <<"-">> =>
                        added[p].value = C8_Decimal(annual[p].value)

\* C8: an annual observation whose value is '-' does not make reconciliation
\* raise and gives a flat record with an absent value and the observation's
\* year; any other value is parsed as a decimal number.
C8_SentinelGivesAbsentValue == [][C8_Step]_vars

\* scenario C: {A01, 2023, '-'} alone gave one flat record, value absent
C8_Witness ==
    /\ pc = "reconcile"
    /\ r = 1
    /\ all_results[1].data = << Obs("A01", "2023", <<"-">>) >>
    /\ Len(processed_data) = 1
    /\ processed_data[1].value.absent
    /\ processed_data[1].year = "2023"

\* a token with a character no number has
C9_NotANumber(value) ==
    \E n \in 1..Len(value) : value[n] \notin Digits \cup {".", "-", "+"}

C9_FatalValue ==
    \E j \in 1..Len(all_results) :
        /\ Matched(all_results[j])
        /\ \E n \in 1..Len(all_results[j].data) :
              /\ all_results[j].data[n].period = "A01"
              /\ C9_NotANumber(all_results[j].data[n].value)

\* C9: the file is written only by the final stage; an annual value of a
\* series with metadata that is neither a number nor '-' ends the run at
\* reconciliation and no file is written, whatever was accumulated.
C9_FatalValueLeavesNoFile ==
    /\ output_file.written => pc = "done"
    /\ C9_FatalValue => /\ pc \notin {"shape", "write", "done"}
                        /\ ~output_file.written
                        /\ df = NoFrame
    /\ C9_FatalValue /\ pc = "aborted" => error = "ValueError" /\ r < Len(all_results)

\* the run ended at reconciliation with flat records already made, no file
C9_Witness ==
    /\ pc = "aborted"
    /\ error = "ValueError"
    /\ C9_FatalValue
    /\ processed_data /= <<>>
    /\ ~output_file.written

\* C10 as stated: the file has one row per flat record and the columns
\* identifier, geography, occupation, measure type, year and value.
C10_FileHasSixColumns ==
    pc = "done" =>
        /\ Len(output_file.rows) = Len(processed_data)
        /\ output_file.columns =
              <<"series_id", "state_code", "occupation_code", "datatype_code",
                "year", "value">>

\* C10 as amended: the file has one row per flat record (the flat view, not
\* the wide one) and the columns identifier, geography, occupation, measure
\* type, year and value followed by the three label columns.
C10_FileHasFlatRowsAndLabelColumns ==
    pc = "done" =>
        /\ output_file.written
        /\ Len(output_file.rows) = Len(processed_data)
        /\ output_file.columns =
              <<"series_id", "state_code", "occupation_code", "datatype_code",
                "year", "value", "state_name", "occupation_name", "datatype_name">>
        /\ \A n \in 1..Len(output_file.rows) :
              /\ Len(output_file.rows[n]) = 9
              /\ SubSeq(output_file.rows[n], 1, 5) =
                    <<processed_data[n].series_id, processed_data[n].state_code,
                      processed_data[n].occupation_code,
                      processed_data[n].datatype_code, processed_data[n].year>>
              /\ processed_data[n].value.absent <=> output_file.rows[n][6] = ""

\* two flat records of one (state, occupation) pair: two rows in the file,
\* one row in the wide view
C10_Witness ==
    /\ pc = "done"
    /\ Len(output_file.rows) = 2
    /\ Cardinality(df_wide) = 1
    /\ output_file.rows[1][6] = "4.5"
    /\ output_file.rows[2][6] = ""
====
